---- MODULE Spec2Model ----
(***************************************************************************)
(* A model of avocado's classifier module (src/avocado/classifier.py):     *)
(* the k-fold training loop shared by LightGBMClassifier.train and         *)
(* NNClassifier.train, the two weighting functions evaluate_weights_flat   *)
(* and evaluate_weights_redshift, the metric weighted_multi_logloss, the    *)
(* training loop of fit_nn_classifier with its checkpoints, and            *)
(* NNClassifier.predict and Classifier.write with the files they use.      *)
(*                                                                         *)
(* Real numbers are modelled exactly: a weight is a rational <<n, d>>, a   *)
(* log-loss is a rational combination of ln 2, ln 3 and ln 5.  Floating    *)
(* point rounding is not modelled.  A non-finite float (inf, nan) is a     *)
(* value with denominator 0.                                               *)
(***************************************************************************)
EXTENDS Integers, Sequences, FiniteSets, TLC

VARIABLES
    \* ---- the fold loop of train ----
    backend,            \* "lgbm" (LightGBMClassifier) or "nn" (NNClassifier)
    folds,              \* dataset.label_folds(...): object -> fold label
    fold,               \* the loop variable of `for fold in range(num_folds)`
    predictions,        \* the out-of-fold table (train) / the table scored (logloss)
    classifiers,        \* the local list `classifiers`
    pc,                 \* the position of the call being modelled
    writers,            \* history: object -> the folds that wrote its row, in order
    self_attrs,         \* the attributes train assigns on self
    \* ---- inputs and outputs of the weighting functions and of the metric ----
    object_classes,     \* dataset.metadata["class"] / true_classes
    class_weights,      \* the class_weights argument: None or a dict
    object_weights,     \* the object_weights argument of the metric: None or a series
    redshifts,          \* dataset.metadata[redshift_key]
    groups,             \* dataset.metadata[group_key]
    num_bins,           \* the num_bins argument
    min_bin_count,      \* the min_bin_count argument
    result,             \* what the call returned (or the exception it raised)
    \* ---- fit_nn_classifier, NNClassifier.predict, Classifier.write ----
    max_iters,          \* fit_params['max_iters']
    eval_interval,      \* fit_params['eval_interval']
    save_model_path,    \* the save_model_path argument: None or a path
    iter,               \* the loop variable of `for iter in range(max_iters)`
    best_loss,          \* the local best_loss
    nn_classifier,      \* the network being fitted: its parameters in memory
    evals,              \* history: fold -> the evaluations of its fit, in order
    files,              \* the classifier directory: path -> file
    overwrite           \* the overwrite argument of the last call of write

vars == <<backend, folds, fold, predictions, classifiers, pc, writers, self_attrs,
          object_classes, class_weights, object_weights, redshifts, groups,
          num_bins, min_bin_count, result,
          max_iters, eval_interval, save_model_path, iter, best_loss,
          nn_classifier, evals, files, overwrite>>

trainVars == <<backend, folds, fold, classifiers, writers, self_attrs>>
dataVars == <<object_classes, class_weights, object_weights, redshifts, groups,
              num_bins, min_bin_count>>
fitVars == <<max_iters, eval_interval, save_model_path, iter, best_loss,
             nn_classifier, evals>>
diskVars == <<files, overwrite>>

None == "None"

(***************************************************************************)
(* Arithmetic helpers.                                                     *)
(***************************************************************************)
Abs(x) == IF x < 0 THEN -x ELSE x

RECURSIVE Gcd(_, _)
Gcd(a, b) == IF b = 0 THEN Abs(a) ELSE Gcd(b, a % b)

Max(S) == CHOOSE x \in S : \A y \in S : y <= x

Sign(x) == IF x < 0 THEN -1 ELSE IF x > 0 THEN 1 ELSE 0

(***************************************************************************)
(* Rationals <<n, d>> in lowest terms with d > 0.  The floats that are not *)
(* numbers have d = 0: <<1, 0>> is inf, <<-1, 0>> is -inf, <<0, 0>> is nan,*)
(* and the operations treat them as IEEE arithmetic does.                  *)
(***************************************************************************)
RNorm(n, d) ==
    IF d = 0 THEN <<Sign(n), 0>>
    ELSE LET g == Gcd(Abs(n), Abs(d))
         IN <<(Sign(d) * n) \div g, Abs(d) \div g>>

R(n) == <<n, 1>>
RInf == <<1, 0>>
RNaN == <<0, 0>>
RFinite(a) == a[2] # 0

RMul(a, b) == RNorm(a[1] * b[1], a[2] * b[2])
RInv(a) == RNorm(a[2], a[1])
RDiv(a, b) == RMul(a, RInv(b))
RAdd(a, b) ==
    IF a[2] = 0 /\ b[2] = 0 THEN (IF a[1] = b[1] THEN a ELSE RNaN)
    ELSE RNorm(a[1] * b[2] + b[1] * a[2], a[2] * b[2])

RECURSIVE SumOver(_, _)
\* the sum of the integers f[x] over the finite set S
SumOver(S, f) ==
    IF S = {} THEN 0
    ELSE LET x == CHOOSE y \in S : TRUE IN f[x] + SumOver(S \ {x}, f)

RECURSIVE RSum(_, _)
\* the sum of f[x] over the finite set S
RSum(S, f) ==
    IF S = {} THEN R(0)
    ELSE LET x == CHOOSE y \in S : TRUE IN RAdd(f[x], RSum(S \ {x}, f))

\* a call that has not returned yet
NoResult == [raised |-> None, value |-> <<>>]
Returned(v) == [raised |-> None, value |-> v]
Raised(e) == [raised |-> e, value |-> <<>>]

\* the class_weights argument: None, or a dict from class names to multipliers
NoClassWeights == [is_none |-> TRUE, dict |-> <<>>]
ClassWeightDicts(classes, values) ==
    {[is_none |-> FALSE, dict |-> d] :
        d \in UNION {[K -> values] : K \in SUBSET classes}}

\* class_weights[class_name]: the multiplier the dict lists for the class, a
\* KeyError for a class it does not list
class_weights_getitem(cw, class_name) ==
    IF class_name \in DOMAIN cw.dict THEN Returned(cw.dict[class_name])
    ELSE Raised("KeyError")

(***************************************************************************)
(* The fold loop of LightGBMClassifier.train and NNClassifier.train.       *)
(* The two methods run the same loop; they differ in the fit they call and *)
(* in what they store on self at the end.                                  *)
(***************************************************************************)
NumTrainObjects == 4
MaxFoldLabel == 2

TrainObjects == 1 .. NumTrainObjects

\* a row of the table as created, -1 in every column: written by no fold
Sentinel == [by |-> -1, trained_on |-> {}]

\* the attributes of self before train has assigned them
Unassigned ==
    [assigned |-> FALSE, train_predictions |-> <<>>, train_classes |-> None,
     classifiers |-> <<>>]

\* num_folds = np.max(folds) + 1
num_folds_without_increment == Max({folds[o] : o \in TrainObjects})
num_folds == Max({folds[o] : o \in TrainObjects}) + 1

\* train_mask = folds != fold
train_mask_leaky(f) == TrainObjects
train_mask(f) == {o \in TrainObjects : folds[o] # f}

\* validation_mask = folds == fold
validation_mask(f) == {o \in TrainObjects : folds[o] = f}

\* fit_lightgbm_classifier / fit_nn_classifier: the model fitted in fold f,
\* recorded with the slices it was given
fit_classifier(f) ==
    [fold |-> f, train |-> train_mask(f), validation |-> validation_mask(f)]

\* classifier.predict_proba(validation_features) / the softmax of the network's
\* logits: a row of probabilities, recorded with the model that produced it
validation_predictions(classifier, o) ==
    [by |-> classifier.fold, trained_on |-> classifier.train]

\* self.classifiers as train leaves it: the fitted models (lgbm), or one
\* {'model_path', 'config'} entry per fold (nn)
stored_classifiers(cs) ==
    IF backend = "lgbm" THEN cs
    ELSE [i \in 1 .. Len(cs) |-> [model_path |-> i - 1, config |-> "config"]]

\* the attributes of self as an earlier call of train left them: the table
\* and the models of that call
EarlierAttrs ==
    [assigned |-> TRUE,
     train_predictions |-> [o \in TrainObjects |-> [by |-> 0, trained_on |-> {}]],
     train_classes |-> "earlier",
     classifiers |-> stored_classifiers(<<[fold |-> 0, train |-> {},
                                          validation |-> TrainObjects]>>)]

IdleData ==
    /\ object_classes = None /\ class_weights = None /\ object_weights = None
    /\ redshifts = None /\ groups = None /\ num_bins = None
    /\ min_bin_count = None /\ result = None

IdleFit ==
    /\ max_iters = None /\ eval_interval = None /\ save_model_path = None
    /\ iter = None /\ best_loss = None /\ nn_classifier = None /\ evals = None

IdleDisk == files = None /\ overwrite = None

InitTrain ==
    /\ backend \in {"lgbm", "nn"}
    /\ folds \in [TrainObjects -> 0 .. MaxFoldLabel]
    /\ fold = 0
    /\ predictions = [o \in TrainObjects |-> Sentinel]
    /\ classifiers = <<>>
    /\ pc = "loop"
    /\ writers = [o \in TrainObjects |-> <<>>]
    /\ self_attrs \in {Unassigned, EarlierAttrs}
    /\ IdleData /\ IdleFit /\ IdleDisk

\* one pass of the loop body: fit on the complement of the fold, write the
\* fold's rows of the table, append the model
TrainFold ==
    /\ pc = "loop"
    /\ fold < num_folds
    /\ LET classifier == fit_classifier(fold)
           mask == validation_mask(fold)
       IN /\ predictions' = [o \in TrainObjects |->
                                IF o \in mask
                                THEN validation_predictions(classifier, o)
                                ELSE predictions[o]]
          /\ classifiers' = Append(classifiers, classifier)
          /\ writers' = [o \in TrainObjects |->
                            IF o \in mask THEN Append(writers[o], fold)
                            ELSE writers[o]]
    /\ fold' = fold + 1
    /\ UNCHANGED <<backend, folds, pc, self_attrs, dataVars, result, fitVars, diskVars>>

\* the fit (or the prediction on the validation slice) raises: train ends
\* there, nothing is assigned on self
TrainRaise_table_on_self ==
    /\ pc = "loop"
    /\ fold < num_folds
    /\ pc' = "raised"
    /\ self_attrs' = [self_attrs EXCEPT !.assigned = TRUE,
                                        !.train_predictions = predictions]
    /\ UNCHANGED <<backend, folds, fold, predictions, classifiers, writers,
                   dataVars, result, fitVars, diskVars>>
TrainRaise ==
    /\ pc = "loop"
    /\ fold < num_folds
    /\ pc' = "raised"
    /\ UNCHANGED <<backend, folds, fold, predictions, classifiers, writers,
                   self_attrs, dataVars, result, fitVars, diskVars>>

\* after the loop, an exception while the diagnostics are computed and
\* printed: train ends there, nothing is assigned on self
TrainDiagnosticsRaise ==
    /\ pc = "loop"
    /\ fold = num_folds
    /\ pc' = "raised"
    /\ UNCHANGED <<backend, folds, fold, predictions, classifiers, writers,
                   self_attrs, dataVars, result, fitVars, diskVars>>

\* after the loop: the diagnostics are printed and the results stored on self
TrainFinish ==
    /\ pc = "loop"
    /\ fold = num_folds
    /\ self_attrs' = [assigned |-> TRUE,
                      train_predictions |-> predictions,
                      train_classes |-> "this",
                      classifiers |-> stored_classifiers(classifiers)]
    /\ pc' = "done"
    /\ UNCHANGED <<backend, folds, fold, predictions, classifiers, writers,
                   dataVars, result, fitVars, diskVars>>

NextTrain == TrainFold \/ TrainRaise \/ TrainDiagnosticsRaise \/ TrainFinish

SpecTrain == InitTrain /\ [][NextTrain]_vars

LoopFinished == pc \in {"loop", "done"} /\ fold = num_folds

\* C1: when the fold loop has finished, every row of the out-of-fold table has
\* been written exactly once, by the fold whose id is the row's fold label; no
\* row still holds the sentinel -1; the validation row sets of the folds are
\* pairwise disjoint and their union is the whole index.
C1_EveryRowWrittenOnce ==
    LoopFinished =>
        /\ \A o \in TrainObjects :
              /\ writers[o] = <<folds[o]>>
              /\ predictions[o] # Sentinel
              /\ predictions[o].by = folds[o]
        /\ Len(classifiers) = num_folds
        /\ \A i, j \in 1 .. Len(classifiers) :
              i # j => classifiers[i].validation \cap classifiers[j].validation = {}
        /\ UNION {classifiers[i].validation : i \in 1 .. Len(classifiers)}
              = TrainObjects

C1_Witness ==
    /\ LoopFinished
    /\ num_folds >= 2
    /\ \A f \in 0 .. num_folds - 1 : \E o \in TrainObjects : folds[o] = f
    /\ \E o1, o2 \in TrainObjects : o1 # o2 /\ folds[o1] = folds[o2]

\* C2: the model of fold f is fitted on exactly the objects whose fold label
\* differs from f and validated on exactly those whose label equals f, so a
\* stored out-of-fold prediction of an object comes from a model whose
\* training slice did not contain the object.
C2_NoLeakage ==
    /\ \A i \in 1 .. Len(classifiers) :
          /\ classifiers[i].fold = i - 1
          /\ classifiers[i].train = {o \in TrainObjects : folds[o] # i - 1}
          /\ classifiers[i].validation = {o \in TrainObjects : folds[o] = i - 1}
    /\ \A o \in TrainObjects :
          predictions[o] # Sentinel => o \notin predictions[o].trained_on

C2_Witness ==
    /\ Len(classifiers) >= 2
    /\ \E o1, o2 \in TrainObjects :
          /\ predictions[o1] # Sentinel /\ predictions[o2] # Sentinel
          /\ predictions[o1].by # predictions[o2].by
          /\ o1 \in predictions[o2].trained_on

(***************************************************************************)
(* evaluate_weights_flat(dataset, class_weights)                           *)
(***************************************************************************)
NumFlatObjects == 4
NumFlatClasses == 2
MaxMultiplier == 2

FlatObjects == 1 .. NumFlatObjects
FlatClasses == 1 .. NumFlatClasses

\* class_counts = object_classes.value_counts(): the classes that occur, each
\* with the number of objects of it
value_counts(classes) ==
    LET present == {classes[o] : o \in DOMAIN classes}
    IN [c \in present |-> Cardinality({o \in DOMAIN classes : classes[o] = c})]

\* class_weight * len(object_classes) / class_count
norm_class_weight_inverted(class_weight, n, class_count) ==
    RDiv(R(class_weight * class_count), R(n))
norm_class_weight(class_weight, n, class_count) ==
    RDiv(R(class_weight * n), R(class_count))

evaluate_weights_flat(classes, cw) ==
    LET class_counts == value_counts(classes)
        n == Cardinality(DOMAIN classes)
        class_weight(c) == IF cw.is_none THEN Returned(1)
                           ELSE class_weights_getitem(cw, c)
    IN IF \E c \in DOMAIN class_counts : class_weight(c).raised # None
       THEN Raised("KeyError")
       ELSE LET norm_class_weights ==
                    [c \in DOMAIN class_counts |->
                        norm_class_weight(class_weight(c).value, n, class_counts[c])]
            IN Returned([o \in DOMAIN classes |-> norm_class_weights[classes[o]]])

InitFlat ==
    /\ object_classes \in [FlatObjects -> FlatClasses]
    /\ class_weights \in {NoClassWeights}
                          \cup ClassWeightDicts(FlatClasses, 0 .. MaxMultiplier)
    /\ pc = "call"
    /\ result = NoResult
    /\ object_weights = None /\ redshifts = None /\ groups = None
    /\ num_bins = None /\ min_bin_count = None /\ predictions = None
    /\ backend = None /\ folds = None /\ fold = None /\ classifiers = None
    /\ writers = None /\ self_attrs = None
    /\ IdleFit /\ IdleDisk

CallFlat ==
    /\ pc = "call"
    /\ result' = evaluate_weights_flat(object_classes, class_weights)
    /\ pc' = "returned"
    /\ UNCHANGED <<trainVars, predictions, dataVars, fitVars, diskVars>>

NextFlat == CallFlat

SpecFlat == InitFlat /\ [][NextFlat]_vars

\* the multiplier m(c): the user's, or 1 when no mapping is given
FlatMultiplier(c) == IF class_weights.is_none THEN 1 ELSE class_weights.dict[c]

FlatReturned == pc = "returned" /\ result.raised = None

\* C3: evaluate_weights_flat gives every object of class c the weight
\* m(c) * N / n_c, so the weights of the objects of class c sum to m(c) * N
\* whatever the class sizes are.
C3_FlatWeights ==
    FlatReturned =>
        LET n == Cardinality(FlatObjects)
            members(c) == {o \in FlatObjects : object_classes[o] = c}
        IN /\ DOMAIN result.value = FlatObjects
           /\ \A o \in FlatObjects :
                 LET c == object_classes[o]
                     w == result.value[o]
                 IN /\ w[2] > 0
                    /\ w[1] * Cardinality(members(c))
                           = FlatMultiplier(c) * n * w[2]
           /\ \A c \in FlatClasses :
                 members(c) # {} =>
                     RSum(members(c), result.value) = R(FlatMultiplier(c) * n)

\* two classes of different sizes, with a multiplier other than 1
C3_Witness ==
    /\ FlatReturned
    /\ ~class_weights.is_none
    /\ \E c1, c2 \in FlatClasses :
          /\ Cardinality({o \in FlatObjects : object_classes[o] = c1})
                > Cardinality({o \in FlatObjects : object_classes[o] = c2})
          /\ Cardinality({o \in FlatObjects : object_classes[o] = c2}) > 0
          /\ class_weights.dict[c2] = 2
          /\ \E o \in FlatObjects : object_classes[o] = c1 /\ result.value[o] # R(1)

(***************************************************************************)
(* weighted_multi_logloss(true_classes, predictions, object_weights,       *)
(*                        class_weights, return_object_contributions)      *)
(*                                                                         *)
(* A probability is <<m, e>>, the decimal m * 10^-e with m in 0 .. 9.  A   *)
(* log-loss is <<c, a2, a3, a5, d>>, the number                            *)
(*     (c * 1e10 + a2 * ln 2 + a3 * ln 3 + a5 * ln 5) / d ;                *)
(* 1, ln 2, ln 3 and ln 5 are linearly independent over the rationals, so  *)
(* two log-losses are equal exactly when their tuples in lowest terms are. *)
(* d = 0 marks a non-finite value: <<1,0,0,0,0>> inf, <<-1,0,0,0,0>> -inf, *)
(* <<0,0,0,0,0>> nan.                                                      *)
(***************************************************************************)
NumLossObjects == 3

LossObjects == 1 .. NumLossObjects
LossClasses == {1, 2}

Gcd5(v) == Gcd(Gcd(Gcd(Abs(v[1]), Abs(v[2])), Gcd(Abs(v[3]), Abs(v[4]))), Abs(v[5]))

\* the sign of the number a finite log-loss tuple stands for (the logarithms
\* to three decimals; the tuples that occur are far from cancelling)
LSign(v) == Sign(Sign(v[5]) * (v[1] * 1000000 + v[2] * 693 + v[3] * 1099 + v[4] * 1609))

LNorm(v) ==
    IF v[5] = 0
    THEN <<(IF v[1] = 0 /\ v[2] = 0 /\ v[3] = 0 /\ v[4] = 0 THEN 0 ELSE v[1]),
           0, 0, 0, 0>>
    ELSE LET g == Gcd5(v)
             s == Sign(v[5])
         IN <<(s * v[1]) \div g, (s * v[2]) \div g, (s * v[3]) \div g,
              (s * v[4]) \div g, Abs(v[5]) \div g>>

LZero == <<0, 0, 0, 0, 1>>
LNaN == <<0, 0, 0, 0, 0>>
LFinite(v) == v[5] # 0

\* a log-loss times a rational
LScale(v, r) ==
    IF v[5] # 0 /\ r[2] # 0
    THEN LNorm(<<v[1] * r[1], v[2] * r[1], v[3] * r[1], v[4] * r[1], v[5] * r[2]>>)
    ELSE LET sv == IF v[5] # 0 THEN LSign(v) ELSE v[1]
             sr == IF r[2] # 0 THEN Sign(r[1]) ELSE r[1]
         IN \* nan in, or 0 * inf: nan; otherwise inf of the product's sign
            IF (v[5] = 0 /\ v[1] = 0) \/ (r[2] = 0 /\ r[1] = 0) \/ sv * sr = 0
            THEN LNaN
            ELSE <<sv * sr, 0, 0, 0, 0>>

LAdd(u, v) ==
    IF u[5] = 0 /\ v[5] = 0 THEN (IF u[1] = v[1] THEN u ELSE LNaN)
    ELSE IF u[5] = 0 THEN u
    ELSE IF v[5] = 0 THEN v
    ELSE LNorm(<<u[1] * v[5] + v[1] * u[5], u[2] * v[5] + v[2] * u[5],
                 u[3] * v[5] + v[3] * u[5], u[4] * v[5] + v[4] * u[5],
                 u[5] * v[5]>>)

RECURSIVE LSum(_, _)
\* np.sum of the series f over the index S
LSum(S, f) ==
    IF S = {} THEN LZero
    ELSE LET x == CHOOSE y \in S : TRUE IN LAdd(f[x], LSum(S \ {x}, f))

\* the exponents of 2, 3 and 5 in the digit m
DigitFactors(m) ==
    CASE m = 1 -> <<0, 0, 0>>
      [] m = 2 -> <<1, 0, 0>>
      [] m = 3 -> <<0, 1, 0>>
      [] m = 4 -> <<2, 0, 0>>
      [] m = 5 -> <<0, 0, 1>>
      [] m = 6 -> <<1, 1, 0>>
      [] m = 8 -> <<3, 0, 0>>
      [] m = 9 -> <<0, 2, 0>>

\* np.log(p): ln(m * 10^-e) = ln m - e * (ln 2 + ln 5); np.log(0) = -inf
Log(p) ==
    IF p[1] = 0 THEN <<-1, 0, 0, 0, 0>>
    ELSE LET f == DigitFactors(p[1])
         IN <<0, f[1] - p[2], f[2], f[3] - p[2], 1>>

Zero == <<0, 0>>
One == <<1, 0>>
Floor == <<1, 10>>          \* 1e-10

\* the value every entry of object_loglosses starts with: 1e10
Unfilled == <<1, 0, 0, 0, 1>>

\* class_predictions[class_predictions == 0] = 1e-10
clamp_unclamped(p) == p
clamp(p) == IF p = Zero THEN Floor ELSE p

\* object_weights[class_mask], or np.ones(class_count)
class_object_weights(ow, o) == IF ow.is_none THEN R(1) ELSE R(ow.series[o])

\* class_weights.get(class_name, 1), or 1 without a mapping
class_weight_of_default_zero(cw, class_name) ==
    IF cw.is_none THEN 1
    ELSE IF class_name \in DOMAIN cw.dict THEN cw.dict[class_name] ELSE 0
class_weight_of(cw, class_name) ==
    IF cw.is_none THEN 1
    ELSE IF class_name \in DOMAIN cw.dict THEN cw.dict[class_name] ELSE 1

\* -class_weight * class_object_weights * np.log(class_predictions)
\*     / np.sum(class_object_weights)
class_logloss_unnormalized(class_weight, w, p, sum_w) ==
    LScale(Log(p), RMul(R(-class_weight), w))
class_logloss(class_weight, w, p, sum_w) ==
    LScale(Log(p), RDiv(RMul(R(-class_weight), w), sum_w))

\* sum_class_weights += class_weight
add_class_weight(sum_class_weights, class_weight) ==
    sum_class_weights + class_weight

\* whether the class is skipped: `if class_weight == 0`
class_ignored_never(class_weight) == FALSE
class_ignored(class_weight) == class_weight = 0

\* `if class_name not in predictions.columns`
column_missing(table, class_name) == class_name \notin table.columns

RECURSIVE class_loop(_, _, _, _, _, _)
\* the body of `for class_name in np.unique(true_classes)`, for the classes
\* from class_name upwards; acc holds object_loglosses and sum_class_weights
class_loop(class_name, true_classes, table, ow, cw, acc) ==
    LET present == {true_classes[o] : o \in DOMAIN true_classes}
        later == {c \in present : c > class_name}
        continue(a) ==
            IF later = {} THEN a
            ELSE class_loop(CHOOSE c \in later : \A c2 \in later : c <= c2,
                            true_classes, table, ow, cw, a)
        class_mask == {o \in DOMAIN true_classes : true_classes[o] = class_name}
        class_weight == class_weight_of(cw, class_name)
        sum_w == RSum(class_mask, [o \in class_mask |-> class_object_weights(ow, o)])
    IN IF class_ignored(class_weight)
       THEN continue([acc EXCEPT !.object_loglosses =
                         [o \in DOMAIN true_classes |->
                             IF o \in class_mask THEN LZero ELSE @[o]]])
       ELSE IF column_missing(table, class_name)
       THEN [acc EXCEPT !.raised = "AvocadoException"]
       ELSE continue(
               [acc EXCEPT
                   !.object_loglosses =
                       [o \in DOMAIN true_classes |->
                           IF o \in class_mask
                           THEN class_logloss(class_weight,
                                              class_object_weights(ow, o),
                                              clamp(table.rows[o][class_name]),
                                              sum_w)
                           ELSE @[o]],
                   !.sum_class_weights = add_class_weight(@, class_weight)])

\* the result: the exception, or the series object_loglosses / sum_class_weights
\* (returned with return_object_contributions) and its np.sum (returned without)
weighted_multi_logloss(true_classes, table, ow, cw) ==
    LET present == {true_classes[o] : o \in DOMAIN true_classes}
        start == [object_loglosses |-> [o \in DOMAIN true_classes |-> Unfilled],
                  sum_class_weights |-> 0,
                  raised |-> None]
        acc == IF present = {} THEN start
               ELSE class_loop(CHOOSE c \in present : \A c2 \in present : c <= c2,
                               true_classes, table, ow, cw, start)
        object_loglosses ==
            [o \in DOMAIN true_classes |->
                LScale(acc.object_loglosses[o], RInv(R(acc.sum_class_weights)))]
    IN IF acc.raised # None THEN Raised(acc.raised)
       ELSE Returned([contributions |-> object_loglosses,
                      total |-> LSum(DOMAIN true_classes, object_loglosses)])

\* the rows of a prediction table, probability vectors over the classes:
\* certain of class 1, certain of class 2, and 0.9 against 0.1
LossRows ==
    {[c \in LossClasses |-> IF c = 1 THEN One ELSE Zero],
     [c \in LossClasses |-> IF c = 1 THEN Zero ELSE One],
     [c \in LossClasses |-> IF c = 1 THEN <<9, 1>> ELSE <<1, 1>>]}

\* the tables: a column per class, or a class's column missing
LossTables ==
    {[columns |-> cols, rows |-> [o \in LossObjects |-> [c \in cols |-> rws[o][c]]]] :
        cols \in {LossClasses} \cup {LossClasses \ {c} : c \in LossClasses},
        rws \in [LossObjects -> LossRows]}

\* the object_weights argument: None, or a series of positive weights
NoObjectWeights == [is_none |-> TRUE, series |-> <<>>]
ObjectWeightSeries(objects) ==
    {[is_none |-> FALSE, series |-> w] : w \in [objects -> {1, 2}]}

\* The metric reads its inputs through masks and sums only, so the order of
\* the objects is immaterial: the datasets are taken with their objects listed
\* by class.
InitLoss ==
    /\ object_classes \in {f \in [LossObjects -> LossClasses] :
                              \A i, j \in LossObjects : i <= j => f[i] <= f[j]}
    /\ predictions \in LossTables
    /\ object_weights \in {NoObjectWeights} \cup ObjectWeightSeries(LossObjects)
    /\ class_weights \in {NoClassWeights} \cup ClassWeightDicts(LossClasses, {0, 2})
    /\ pc = "call"
    /\ result = NoResult
    /\ redshifts = None /\ groups = None /\ num_bins = None /\ min_bin_count = None
    /\ backend = None /\ folds = None /\ fold = None /\ classifiers = None
    /\ writers = None /\ self_attrs = None
    /\ IdleFit /\ IdleDisk

CallLoss ==
    /\ pc = "call"
    /\ result' = weighted_multi_logloss(object_classes, predictions,
                                        object_weights, class_weights)
    /\ pc' = "returned"
    /\ UNCHANGED <<trainVars, predictions, dataVars, fitVars, diskVars>>

NextLoss == CallLoss

SpecLoss == InitLoss /\ [][NextLoss]_vars

LossReturned == pc = "returned" /\ result.raised = None

\* ---- what the claims about the metric speak of ----
LossPresent == {object_classes[o] : o \in LossObjects}
LossMembers(c) == {o \in LossObjects : object_classes[o] = c}
\* w_c: the weight of class c (1 when no mapping lists it)
LossWeight(c) ==
    IF class_weights.is_none \/ c \notin DOMAIN class_weights.dict THEN 1
    ELSE class_weights.dict[c]
\* ow_i: the weight of object i (1 when no object weights are given)
LossObjectWeight(o) == IF object_weights.is_none THEN 1 ELSE object_weights.series[o]
\* the classes that count: present, with a non-zero weight
LossWeighted == {c \in LossPresent : LossWeight(c) # 0}
\* p_i: the predicted probability of object i's true class
TrueProb(o) == predictions.rows[o][object_classes[o]]
HasTrueProb(o) == object_classes[o] \in predictions.columns
\* -ln p_i, a probability of 0 counted as 1e-10
FlooredNegLog(o) ==
    LScale(Log(IF TrueProb(o) = Zero THEN Floor ELSE TrueProb(o)), R(-1))

\* sum over the weighted classes of w_c * (sum_i ow_i * -ln p_i) / (sum_i ow_i),
\* divided by the sum of the w_c
ClosedFormLoss ==
    LET class_term(c) ==
            LScale(LSum(LossMembers(c),
                        [o \in LossMembers(c) |->
                            LScale(FlooredNegLog(o), R(LossObjectWeight(o)))]),
                   RDiv(R(LossWeight(c)),
                        R(SumOver(LossMembers(c),
                                  [o \in LossMembers(c) |-> LossObjectWeight(o)]))))
    IN LScale(LSum(LossWeighted, [c \in LossWeighted |-> class_term(c)]),
              RInv(R(SumOver(LossWeighted, [c \in LossWeighted |-> LossWeight(c)]))))

\* C4: the scalar returned is the sum over the classes with non-zero weight of
\* w_c times the object-weighted mean of -ln p_i over the class (the class sum
\* divided by the class's summed object weight first), the total then divided
\* by the sum of those w_c; the per-object series sums to the scalar.  (p_i
\* is the probability after the 1e-10 floor of C7.)
C4_LoglossFormula ==
    LossReturned =>
        /\ result.value.total = ClosedFormLoss
        /\ LSum(LossObjects, result.value.contributions) = result.value.total

\* as the scenario of the specification: classes [1, 1, 2], two different
\* probabilities for the objects of class 1, a third for the object of class 2
C4_Witness ==
    /\ LossReturned
    /\ predictions.columns = LossClasses
    /\ \E o1, o2, o3 \in LossObjects :
          /\ o1 # o2
          /\ object_classes[o1] = 1 /\ object_classes[o2] = 1 /\ object_classes[o3] = 2
          /\ TrueProb(o1) = <<9, 1>> /\ TrueProb(o2) = Zero /\ TrueProb(o3) = <<1, 1>>
          /\ ~object_weights.is_none
          /\ object_weights.series[o1] # object_weights.series[o2]
    /\ LossWeight(1) = 2 /\ LossWeight(2) = 1
    /\ LFinite(result.value.total) /\ result.value.total # LZero

\* the inputs with every row of class c deleted
WithoutClass(f, c) == [o \in LossObjects \ LossMembers(c) |-> f[o]]
LossWithoutClass(c) ==
    weighted_multi_logloss(
        WithoutClass(object_classes, c),
        [columns |-> predictions.columns, rows |-> WithoutClass(predictions.rows, c)],
        IF object_weights.is_none THEN object_weights
        ELSE [is_none |-> FALSE, series |-> WithoutClass(object_weights.series, c)],
        class_weights)

\* C5: a class of weight 0 has no influence: its objects contribute 0 and the
\* call gives what it gives on the same inputs with the rows of that class
\* deleted (some other class present having a non-zero weight).
C5_ZeroWeightClassRemoved ==
    pc = "returned" =>
        \A c \in LossPresent :
            (LossWeight(c) = 0 /\ LossWeighted # {}) =>
                LET without == LossWithoutClass(c)
                IN /\ result.raised = without.raised
                   /\ result.raised = None =>
                         /\ result.value.total = without.value.total
                         /\ \A o \in LossMembers(c) :
                               result.value.contributions[o] = LZero
                         /\ \A o \in LossObjects \ LossMembers(c) :
                               result.value.contributions[o]
                                   = without.value.contributions[o]

\* a class of weight 0 whose column is missing and whose rows hold a zero
\* probability elsewhere, beside a weighted class with a non-zero loss
C5_Witness ==
    /\ LossReturned
    /\ \E c \in LossPresent :
          /\ LossWeight(c) = 0
          /\ c \notin predictions.columns
          /\ Cardinality(LossMembers(c)) >= 2
    /\ LossWeighted # {}
    /\ LFinite(result.value.total) /\ result.value.total # LZero

\* C6: the call raises AvocadoException exactly when some class among the true
\* labels has a non-zero weight and no column in the table: a class of weight 0
\* never raises, nor does a missing column of a class that does not occur.
C6_RaisesIffWeightedClassMissing ==
    pc = "returned" =>
        /\ result.raised \in {None, "AvocadoException"}
        /\ result.raised = "AvocadoException"
              <=> \E c \in LossPresent : LossWeight(c) # 0 /\ c \notin predictions.columns

\* both outcomes with a column missing: a raise, and a return because the
\* class without column has weight 0 or does not occur
C6_Witness ==
    /\ pc = "returned"
    /\ result.raised = "AvocadoException"
    /\ \E c \in LossPresent : LossWeight(c) = 0 /\ c \in predictions.columns

C6_WitnessNoRaise ==
    /\ LossReturned
    /\ \E c \in LossPresent : LossWeight(c) = 0 /\ c \notin predictions.columns
    /\ LossWeighted # {}

\* the table with every probability 0 replaced by 1e-10
FlooredTable ==
    [columns |-> predictions.columns,
     rows |-> [o \in LossObjects |->
                  [c \in predictions.columns |->
                      IF predictions.rows[o][c] = Zero THEN Floor
                      ELSE predictions.rows[o][c]]]]

ZeroOnTrueClass(o) ==
    /\ object_classes[o] \in LossWeighted
    /\ HasTrueProb(o)
    /\ TrueProb(o) = Zero

PerfectTable ==
    \A o \in LossObjects : HasTrueProb(o) /\ TrueProb(o) = One

\* C7: a predicted probability of exactly 0 on an object's true class counts as
\* 1e-10: the result is the one computed with 1e-10 in its place, the object
\* contributes -ln(1e-10) with its weights, and nothing is infinite or nan.
\* For a perfect table (probability 1 on every true class) the metric is 0,
\* some class present having a non-zero weight.
C7_ZeroProbabilityFloored ==
    LossReturned =>
        /\ (\E o \in LossObjects : ZeroOnTrueClass(o)) =>
              /\ LFinite(result.value.total)
              /\ \A o \in LossObjects : LFinite(result.value.contributions[o])
              /\ result = weighted_multi_logloss(object_classes, FlooredTable,
                                                 object_weights, class_weights)
              /\ \A o \in LossObjects :
                    ZeroOnTrueClass(o) =>
                        LET c == object_classes[o]
                        IN result.value.contributions[o]
                             = LScale(<<0, 10, 0, 10, 1>>,
                                      RDiv(R(LossWeight(c) * LossObjectWeight(o)),
                                           R(SumOver(LossMembers(c),
                                                     [i \in LossMembers(c) |->
                                                         LossObjectWeight(i)])
                                             * SumOver(LossWeighted,
                                                       [k \in LossWeighted |->
                                                           LossWeight(k)]))))
        /\ (PerfectTable /\ LossWeighted # {}) => result.value.total = LZero

C7_Witness ==
    /\ LossReturned
    /\ \E o1, o2 \in LossObjects :
          /\ ZeroOnTrueClass(o1)
          /\ o1 # o2 /\ object_classes[o1] = object_classes[o2]
          /\ TrueProb(o2) = <<9, 1>>
    /\ LFinite(result.value.total)

C7_WitnessPerfect ==
    /\ LossReturned
    /\ PerfectTable
    /\ Cardinality(LossWeighted) = 2
    /\ result.value.total = LZero

(***************************************************************************)
(* evaluate_weights_redshift(dataset, class_weights, group_key,            *)
(*     min_redshift, max_redshift, num_bins, min_bin_count, redshift_key)  *)
(*                                                                         *)
(* Redshifts are integers on a grid whose step is half of min_redshift.    *)
(* The three edges the code writes as 1e-99, 1e99 and -1e99 stand, as its  *)
(* comments say, for "just above 0" and for plus and minus infinity: on    *)
(* the grid, 1e-99 lies below every positive redshift and above 0, and no  *)
(* redshift reaches 1e99 or -1e99.  max_redshift is min_redshift * 2 ^     *)
(* num_bins, so that the logarithmically spaced edges are min_redshift *   *)
(* 2 ^ k, on the grid as well.                                             *)
(***************************************************************************)
NumRedshiftObjects == 3
MaxNumBins == 2

RedshiftObjects == 1 .. NumRedshiftObjects
RedshiftClasses == {1, 2}
RedshiftGroups == {1, 2}

min_redshift == 2
max_redshift(nb) == min_redshift * 2 ^ nb

\* galactic; positive below min_redshift; on the first interior edge; above
\* every max_redshift
RedshiftValues == {0, 1, 2 * min_redshift, 40 * min_redshift}

Edge(kind, at) == [kind |-> kind, at |-> at]

\* np.logspace(np.log10(min_redshift), np.log10(max_redshift), num_bins + 1)[k]
logspace(nb, k) == min_redshift * 2 ^ k

\* redshift_bins as searchsorted receives it, entry i + 1 being the code's
\* redshift_bins[i]: -1e99, 1e-99, the interior edges, 1e99
redshift_bins_first_edge_kept(nb) ==
    [i \in 1 .. nb + 2 |->
        IF i = 1 THEN Edge("-1e99", 0)
        ELSE IF i = nb + 2 THEN Edge("1e99", 0)
        ELSE Edge("grid", logspace(nb, i - 2))]
redshift_bins(nb) ==
    [i \in 1 .. nb + 2 |->
        IF i = 1 THEN Edge("-1e99", 0)
        ELSE IF i = 2 THEN Edge("1e-99", 0)
        ELSE IF i = nb + 2 THEN Edge("1e99", 0)
        ELSE Edge("grid", logspace(nb, i - 2))]

\* edge < z
EdgeLess(e, z) ==
    CASE e.kind = "-1e99" -> TRUE
      [] e.kind = "1e-99" -> z > 0
      [] e.kind = "grid"  -> e.at < z
      [] e.kind = "1e99"  -> FALSE

\* edge <= z
EdgeLessEq(e, z) == EdgeLess(e, z) \/ (e.kind = "grid" /\ e.at = z)

\* np.searchsorted(a, v): the insertion point that keeps a sorted, before any
\* entry equal to v (side='left'), i.e. the number of entries below v
searchsorted_right(a, v) == Cardinality({i \in DOMAIN a : EdgeLessEq(a[i], v)})
searchsorted(a, v) == Cardinality({i \in DOMAIN a : EdgeLess(a[i], v)})

\* redshift_indices = np.searchsorted(redshift_bins, redshift) - 1
redshift_index(nb, z) == searchsorted(redshift_bins(nb), z) - 1

\* the cells of the array counts: group_names x bins x class_names
Cells(group_names, nb, class_names) ==
    group_names \X (0 .. nb) \X class_names

RECURSIVE count_loop(_, _, _, _, _, _)
\* `for ... in zip(group_indices, redshift_indices, class_indices):
\*      counts[group_index, redshift_index, class_index] += 1`
\* over the objects from o upwards
count_loop(o, n, group_of, index_of, class_of, counts) ==
    IF o > n THEN counts
    ELSE count_loop(o + 1, n, group_of, index_of, class_of,
                    [counts EXCEPT ![<<group_of[o], index_of[o], class_of[o]>>] = @ + 1])

\* floor_counts = np.clip(counts, min_bin_count, None)
floor_count_unfloored(count, mbc) == count
floor_count(count, mbc) == IF count < mbc THEN mbc ELSE count

\* counts > 1e-4 * total_counts
populated(count, total_counts) == 10000 * count > total_counts

\* extgal_mask = class_extgal_counts > class_gal_counts
extgal_mask_of_inverted(class_extgal_count, class_gal_count) ==
    class_extgal_count < class_gal_count
extgal_mask_of(class_extgal_count, class_gal_count) ==
    class_extgal_count > class_gal_count

\* weights[:, :, extgal_mask] /= extgal_scale
rescale_extgal_unmasked(weight, in_extgal_mask, extgal_scale) ==
    RDiv(weight, extgal_scale)
rescale_extgal(weight, in_extgal_mask, extgal_scale) ==
    IF in_extgal_mask THEN RDiv(weight, extgal_scale) ELSE weight

\* weights[:, :, class_idx] *= class_weights[class_name]
rescale_by_class_weight_skipped(weight, class_weight) == weight
rescale_by_class_weight(weight, class_weight) == RMul(weight, R(class_weight))

evaluate_weights_redshift(classes, zs, grps, cw, nb, mbc) ==
    LET objects == DOMAIN classes
        n == Cardinality(objects)
        redshift_indices == [o \in objects |-> redshift_index(nb, zs[o])]
        class_names == {classes[o] : o \in objects}
        group_names == {grps[o] : o \in objects}
        cells == Cells(group_names, nb, class_names)
        counts == count_loop(1, n, grps, redshift_indices, classes,
                             [cell \in cells |-> 0])
        total_counts == SumOver(cells, counts)
        num_extgal_bins ==
            Cardinality({cell \in cells :
                            cell[2] >= 1 /\ populated(counts[cell], total_counts)})
        class_extgal_counts ==
            [c \in class_names |->
                SumOver({cell \in cells : cell[2] >= 1 /\ cell[3] = c}, counts)]
        class_gal_counts ==
            [c \in class_names |->
                SumOver({cell \in cells : cell[2] = 0 /\ cell[3] = c}, counts)]
        extgal_mask ==
            {c \in class_names :
                extgal_mask_of(class_extgal_counts[c], class_gal_counts[c])}
        num_extgal_classes == Cardinality(extgal_mask)
        extgal_scale == RDiv(R(num_extgal_bins), R(num_extgal_classes))
        class_weight(c) == class_weights_getitem(cw, c)
        weights ==
            [cell \in cells |->
                LET w == RDiv(R(total_counts), R(floor_count(counts[cell], mbc)))
                    rescaled == rescale_extgal(w, cell[3] \in extgal_mask,
                                               extgal_scale)
                IN IF cw.is_none THEN rescaled
                   ELSE rescale_by_class_weight(rescaled, class_weight(cell[3]).value)]
    IN IF ~cw.is_none /\ \E c \in class_names : class_weight(c).raised # None
       THEN Raised("KeyError")
       ELSE Returned([object_weights |->
                         [o \in objects |->
                             weights[<<grps[o], redshift_indices[o], classes[o]>>]],
                      redshift_indices |-> redshift_indices,
                      counts |-> counts,
                      extgal_scale |-> extgal_scale])

\* the order of the objects is immaterial to the counts and to the weights:
\* the datasets are taken with their objects listed by class, group, redshift
RedshiftKey(o) == (object_classes[o] * 10 + groups[o]) * 1000 + redshifts[o]

InitRedshift ==
    /\ object_classes \in [RedshiftObjects -> RedshiftClasses]
    /\ groups \in [RedshiftObjects -> RedshiftGroups]
    /\ redshifts \in [RedshiftObjects -> RedshiftValues]
    /\ \A i, j \in RedshiftObjects : i <= j => RedshiftKey(i) <= RedshiftKey(j)
    /\ class_weights \in {NoClassWeights} \cup ClassWeightDicts(RedshiftClasses, {0, 2})
    /\ num_bins \in 1 .. MaxNumBins
    /\ min_bin_count \in {1, 2}
    /\ pc = "call"
    /\ result = NoResult
    /\ object_weights = None /\ predictions = None
    /\ backend = None /\ folds = None /\ fold = None /\ classifiers = None
    /\ writers = None /\ self_attrs = None
    /\ IdleFit /\ IdleDisk

CallRedshift ==
    /\ pc = "call"
    /\ result' = evaluate_weights_redshift(object_classes, redshifts, groups,
                                           class_weights, num_bins, min_bin_count)
    /\ pc' = "returned"
    /\ UNCHANGED <<trainVars, predictions, dataVars, fitVars, diskVars>>

NextRedshift == CallRedshift

SpecRedshift == InitRedshift /\ [][NextRedshift]_vars

RedshiftReturned == pc = "returned" /\ result.raised = None

\* ---- what the claims about the redshift weights speak of ----
RedshiftBin(o) == result.value.redshift_indices[o]
RedshiftCell(o) == <<groups[o], RedshiftBin(o), object_classes[o]>>
\* the number of objects in a (group, redshift bin, class) cell
CellCount(cell) == Cardinality({o \in RedshiftObjects : RedshiftCell(o) = cell})
\* the interior edges: those computed by logspace and left in place
InteriorEdges == {min_redshift * 2 ^ k : k \in 1 .. num_bins - 1}
\* the code's redshift_bins[i], i counted from 0
BinEdge(i) == redshift_bins(num_bins)[i + 1]

\* C8, as the code has it: a redshift exactly on an interior edge falls into the
\* bin of which that edge is the upper edge; the bins are open on the left and
\* closed on the right, edge[i] < z <= edge[i + 1].
C8_EdgeBelongsToLowerBin ==
    RedshiftReturned =>
        \A o \in RedshiftObjects :
            /\ EdgeLess(BinEdge(RedshiftBin(o)), redshifts[o])
            /\ ~EdgeLess(BinEdge(RedshiftBin(o) + 1), redshifts[o])
            /\ \A i \in 2 .. num_bins :
                  (BinEdge(i).kind = "grid" /\ BinEdge(i).at = redshifts[o])
                      => RedshiftBin(o) = i - 1

\* C8 as claimed: a redshift exactly on an interior edge falls into the bin of
\* which that edge is the lower edge (edge[i] <= z < edge[i + 1]).
C8_EdgeBelongsToUpperBin ==
    RedshiftReturned =>
        \A o \in RedshiftObjects :
            \A i \in 2 .. num_bins :
                (BinEdge(i).kind = "grid" /\ BinEdge(i).at = redshifts[o])
                    => RedshiftBin(o) = i

\* an object on the interior edge and one just above it, in different bins
C8_Witness ==
    /\ RedshiftReturned
    /\ \E o1, o2 \in RedshiftObjects :
          /\ redshifts[o1] \in InteriorEdges
          /\ redshifts[o2] > redshifts[o1]
          /\ RedshiftBin(o1) = 1
          /\ RedshiftBin(o2) = 2

\* C9: every object is counted in exactly one (group, redshift bin, class) cell,
\* its bin index within 0 .. num_bins: bin 0 for a redshift of exactly 0, bin 1
\* for a positive redshift below min_redshift, the last bin for a redshift
\* above max_redshift; the cell counts sum to the number of objects.
C9_EveryObjectInOneCell ==
    RedshiftReturned =>
        LET counts == result.value.counts
        IN /\ \A o \in RedshiftObjects :
                 /\ RedshiftBin(o) \in 0 .. num_bins
                 /\ RedshiftCell(o) \in DOMAIN counts
                 /\ redshifts[o] = 0 => RedshiftBin(o) = 0
                 /\ (0 < redshifts[o] /\ redshifts[o] < min_redshift)
                       => RedshiftBin(o) = 1
                 /\ redshifts[o] > max_redshift(num_bins) => RedshiftBin(o) = num_bins
           /\ \A cell \in DOMAIN counts : counts[cell] = CellCount(cell)
           /\ \A cell \in DOMAIN counts : cell[2] \in 0 .. num_bins
           /\ SumOver(DOMAIN counts, counts) = Cardinality(RedshiftObjects)

\* a galactic object, one below min_redshift and one above max_redshift
C9_Witness ==
    /\ RedshiftReturned
    /\ num_bins >= 2
    /\ \E o1, o2, o3 \in RedshiftObjects :
          /\ redshifts[o1] = 0 /\ RedshiftBin(o1) = 0
          /\ redshifts[o2] = 1 /\ RedshiftBin(o2) = 1
          /\ redshifts[o3] > max_redshift(num_bins) /\ RedshiftBin(o3) = num_bins

\* a class is extragalactic when more of its objects lie in the non-galactic
\* bins than in the galactic bin, all groups together
Extragalactic(c) ==
    Cardinality({o \in RedshiftObjects : object_classes[o] = c /\ RedshiftBin(o) >= 1})
        > Cardinality({o \in RedshiftObjects : object_classes[o] = c /\ RedshiftBin(o) = 0})
ExtragalacticClasses == {c \in RedshiftClasses : Extragalactic(c)}
\* the (group, non-galactic bin, class) cells holding more than 1e-4 * N objects
PopulatedCells ==
    {cell \in {RedshiftCell(o) : o \in RedshiftObjects} :
        cell[2] >= 1 /\ 10000 * CellCount(cell) > Cardinality(RedshiftObjects)}
RescaleFactor == RDiv(R(Cardinality(PopulatedCells)), R(Cardinality(ExtragalacticClasses)))
RedshiftMultiplier(c) == IF class_weights.is_none THEN 1 ELSE class_weights.dict[c]
BinCountFloor(x) == IF x > min_bin_count THEN x ELSE min_bin_count

ExpectedRedshiftWeight(o) ==
    LET c == object_classes[o]
        base == RMul(R(RedshiftMultiplier(c)),
                     RDiv(R(Cardinality(RedshiftObjects)),
                          R(BinCountFloor(CellCount(RedshiftCell(o))))))
    IN IF Extragalactic(c) THEN RDiv(base, RescaleFactor) ELSE base

\* C10: the weight of an object in cell (g, b, c) is N / max(count(g, b, c),
\* min_bin_count), times the multiplier of c when a mapping is given, divided
\* by S when c is extragalactic and only then; S is the number of (group,
\* non-galactic bin, class) cells with count > 1e-4 * N over the number of
\* extragalactic classes.
C10_RedshiftWeightFormula ==
    RedshiftReturned =>
        /\ \A o \in RedshiftObjects :
              result.value.object_weights[o] = ExpectedRedshiftWeight(o)
        /\ ExtragalacticClasses # {} => result.value.extgal_scale = RescaleFactor

\* an extragalactic class spread over two cells beside a galactic class, a
\* cell below the floor, a multiplier of 2
C10_Witness ==
    /\ RedshiftReturned
    /\ ~class_weights.is_none
    /\ \E c1, c2 \in RedshiftClasses :
          /\ Extragalactic(c1) /\ ~Extragalactic(c2)
          /\ class_weights.dict[c1] = 2
          /\ \E o \in RedshiftObjects : object_classes[o] = c2
    /\ RescaleFactor = R(2)
    /\ \E o \in RedshiftObjects : CellCount(RedshiftCell(o)) < min_bin_count

\* C11, as the code has it: the series returned has exactly one entry per
\* object of the dataset, and the weight of an object has the sign of the
\* multiplier of its class: strictly positive for a positive multiplier (or
\* without a mapping), 0 for a multiplier of 0.
C11_WeightSignOfMultiplier ==
    RedshiftReturned =>
        /\ DOMAIN result.value.object_weights = RedshiftObjects
        /\ \A o \in RedshiftObjects :
              LET w == result.value.object_weights[o]
                  m == RedshiftMultiplier(object_classes[o])
              IN /\ m > 0 => w[1] > 0
                 /\ m = 0 => w = R(0)

\* C11 as claimed: every weight returned is strictly positive, whatever the
\* class multipliers the call was given.
C11_EveryWeightPositive ==
    RedshiftReturned =>
        /\ DOMAIN result.value.object_weights = RedshiftObjects
        /\ \A o \in RedshiftObjects : result.value.object_weights[o][1] > 0

\* a class of multiplier 0 beside a class of multiplier 2, in cells the floor
\* and the extragalactic rescale act on
C11_Witness ==
    /\ RedshiftReturned
    /\ ~class_weights.is_none
    /\ \E o1, o2 \in RedshiftObjects :
          /\ RedshiftMultiplier(object_classes[o1]) = 0
          /\ result.value.object_weights[o1] = R(0)
          /\ RedshiftMultiplier(object_classes[o2]) = 2
          /\ Extragalactic(object_classes[o2])
          /\ result.value.object_weights[o2][1] > 0

\* ---- the datasets C12 speaks of ----
\* every object lies in one and the same redshift bin
SingleBinOccupied == \A o1, o2 \in RedshiftObjects : RedshiftBin(o1) = RedshiftBin(o2)
SingleGroup == \A o1, o2 \in RedshiftObjects : groups[o1] = groups[o2]
RedshiftPresent == {object_classes[o] : o \in RedshiftObjects}
ClassCount(c) == Cardinality({o \in RedshiftObjects : object_classes[o] = c})
\* no class is so small that the floor min_bin_count, or the occupancy
\* threshold 1e-4 * N, acts on it
NoClassBelowFloor ==
    \A c \in RedshiftPresent :
        /\ ClassCount(c) >= min_bin_count
        /\ 10000 * ClassCount(c) > Cardinality(RedshiftObjects)
FlatOnSameDataset == evaluate_weights_flat(object_classes, class_weights)

\* C12, as the code has it: with a single redshift bin occupied, a single
\* group, and no class below min_bin_count (nor below 1e-4 * N), the weights
\* are those of evaluate_weights_flat with the same multipliers; the rescale
\* factor is 1 when the occupied bin is not the galactic one.
C12_SingleBinSingleGroupIsFlat ==
    (RedshiftReturned /\ SingleBinOccupied /\ SingleGroup /\ NoClassBelowFloor) =>
        /\ FlatOnSameDataset.raised = None
        /\ result.value.object_weights = FlatOnSameDataset.value
        /\ (\A o \in RedshiftObjects : RedshiftBin(o) >= 1)
              => result.value.extgal_scale = R(1)

\* C12 as claimed: with a single redshift bin occupied the weights are those of
\* evaluate_weights_flat, and the rescale factor (where a class is
\* extragalactic, so that it is applied) is 1.
C12_SingleBinIsFlat ==
    (RedshiftReturned /\ SingleBinOccupied) =>
        /\ FlatOnSameDataset.raised = None
        /\ result.value.object_weights = FlatOnSameDataset.value
        /\ ExtragalacticClasses # {} => result.value.extgal_scale = R(1)

\* two classes of different sizes in one non-galactic bin, with multipliers
C12_Witness ==
    /\ RedshiftReturned /\ SingleBinOccupied /\ SingleGroup /\ NoClassBelowFloor
    /\ \A o \in RedshiftObjects : RedshiftBin(o) = 2
    /\ ~class_weights.is_none
    /\ \E c1, c2 \in RedshiftPresent :
          /\ ClassCount(c1) > ClassCount(c2)
          /\ class_weights.dict[c1] = 2
    /\ \E o1, o2 \in RedshiftObjects :
          result.value.object_weights[o1] # result.value.object_weights[o2]
    /\ result.value.extgal_scale = R(1)

\* the same in the galactic bin: flat weights, the rescale factor 0 / 0
C12_WitnessGalactic ==
    /\ RedshiftReturned /\ SingleBinOccupied /\ SingleGroup /\ NoClassBelowFloor
    /\ \A o \in RedshiftObjects : RedshiftBin(o) = 0
    /\ Cardinality(RedshiftPresent) = 2
    /\ result.value.extgal_scale = RNaN

\* the multiplier with the default of weighted_multi_logloss: 1 for a class the
\* mapping does not list
MultiplierOrOne(c) ==
    IF class_weights.is_none \/ c \notin DOMAIN class_weights.dict THEN 1
    ELSE class_weights.dict[c]

\* C13: given a mapping that does not list some class present in the dataset,
\* evaluate_weights_flat uses the multiplier 1 for that class, as
\* weighted_multi_logloss does, and returns a weight for every object.
C13_UnlistedClassDefaultsToOne ==
    (pc = "returned" /\ ~class_weights.is_none) =>
        /\ result.raised = None
        /\ DOMAIN result.value = FlatObjects
        /\ \A o \in FlatObjects :
              LET c == object_classes[o]
              IN result.value[o]
                   = RDiv(R(MultiplierOrOne(c) * Cardinality(FlatObjects)),
                          R(Cardinality({i \in FlatObjects : object_classes[i] = c})))

(***************************************************************************)
(* fit_nn_classifier, and NNClassifier.train and NNClassifier.predict      *)
(* around it.                                                              *)
(*                                                                         *)
(* The parameters of a network are identified by the fit that produced     *)
(* them and the number of optimizer steps taken: Params(f, k) is the state *)
(* of the network of fold f after k steps, Params(f, 0) the freshly        *)
(* initialized one.  A path is identified by the fold in its name,         *)
(* classifier_<name>_<fold>.pt.  A file found in the directory before the  *)
(* call holds parameters saved by an earlier run.  The validation loss of  *)
(* an evaluation is whatever estimate_loss measures: any of ValLosses.     *)
(***************************************************************************)
MaxIters == 3
MaxEvalInterval == 2

ValLosses == {R(1), R(2), RNaN}

\* a < b on floats: false when either side is nan
RLess(a, b) ==
    IF a = RNaN \/ b = RNaN THEN FALSE
    ELSE IF ~RFinite(a) \/ ~RFinite(b) THEN (a # b /\ (a = <<-1, 0>> \/ b = RInf))
    ELSE a[1] * b[2] < b[1] * a[2]

Params(f, k) == [run |-> "this", fold |-> f, steps |-> k]
EarlierParams(f) == [run |-> "earlier", fold |-> f, steps |-> 0]

NoPath == [given |-> FALSE, fold |-> 0]
Path(f) == [given |-> TRUE, fold |-> f]
\* the paths of the folds the labelings below give
Paths == 0 .. 1

NoFile == [exists |-> FALSE, state |-> EarlierParams(0)]
EarlierFile(f) == [exists |-> TRUE, state |-> EarlierParams(f)]
File(state) == [exists |-> TRUE, state |-> state]

\* `for iter in range(fit_params['max_iters'])`: whether the body runs for i
in_range_until_no_improvement(i) ==
    i < max_iters /\ (IF evals[fold] = <<>> THEN TRUE
                      ELSE evals[fold][Len(evals[fold])].saved)
in_range(i) == i < max_iters

\* iter % fit_params['eval_interval'] == 0 or iter == fit_params['max_iters'] - 1
evaluation_due(i) == i % eval_interval = 0 \/ i = max_iters - 1

\* metrics['val/loss'] < best_loss and save_model_path is not None
improved_or_equal(val_loss) ==
    (IF val_loss = best_loss THEN TRUE ELSE RLess(val_loss, best_loss))
        /\ save_model_path.given
improved(val_loss) == RLess(val_loss, best_loss) /\ save_model_path.given

\* torch.save(classifier.state_dict(), save_model_path)
torch_save(state, path) == [files EXCEPT ![path.fold] = File(state)]

\* the fold labelings of the dataset: one fold, or two
NNFoldLabels == {[o \in TrainObjects |-> 0], [o \in TrainObjects |-> o % 2]}

\* NNClassifier.train is called (backend "nn"), or fit_nn_classifier is called
\* on its own (backend "fit"), without or with a save_model_path
InitNN ==
    /\ backend \in {"nn", "fit"}
    /\ folds \in NNFoldLabels
    /\ max_iters \in 0 .. MaxIters
    /\ eval_interval \in 1 .. MaxEvalInterval
    /\ save_model_path \in (IF backend = "nn" THEN {NoPath} ELSE {NoPath, Path(0)})
    /\ files \in {[p \in Paths |-> IF p \in S THEN EarlierFile(p) ELSE NoFile] :
                    S \in SUBSET Paths}
    /\ fold = 0
    /\ predictions = <<>>
    /\ classifiers = <<>>
    /\ pc = (IF backend = "nn" THEN "loop" ELSE "call")
    /\ self_attrs = Unassigned
    /\ iter = 0
    /\ best_loss = RInf
    /\ nn_classifier = Params(0, 0)
    /\ evals = [f \in Paths |-> <<>>]
    /\ result = NoResult
    /\ writers = None /\ overwrite = None
    /\ object_classes = None /\ class_weights = None /\ object_weights = None
    /\ redshifts = None /\ groups = None /\ num_bins = None /\ min_bin_count = None

notFitVars == <<writers, overwrite, dataVars>>

\* fit_nn_classifier is entered: by the fold loop of train with the path of
\* the fold, or on its own; the network is built, best_loss = np.inf
FitCall ==
    /\ \/ backend = "nn" /\ pc = "loop" /\ fold < num_folds
       \/ backend = "fit" /\ pc = "call"
    /\ save_model_path' = (IF backend = "nn" THEN Path(fold) ELSE save_model_path)
    /\ nn_classifier' = Params(fold, 0)
    /\ best_loss' = RInf
    /\ iter' = 0
    /\ evals' = [evals EXCEPT ![fold] = <<>>]
    /\ pc' = "fit"
    /\ UNCHANGED <<backend, folds, fold, predictions, classifiers, self_attrs,
                   result, max_iters, eval_interval, files, notFitVars>>

\* one pass of the loop body: an optimizer step, then, when an evaluation is
\* due, estimate_loss and the checkpoint of the parameters if the validation
\* loss improved
FitIteration ==
    /\ pc = "fit"
    /\ in_range(iter)
    /\ LET stepped == [nn_classifier EXCEPT !.steps = @ + 1]
       IN /\ nn_classifier' = stepped
          /\ IF evaluation_due(iter)
             THEN \E val_loss \in ValLosses :
                     LET save == improved(val_loss)
                     IN /\ evals' = [evals EXCEPT ![fold] =
                                        Append(@, [iter |-> iter, loss |-> val_loss,
                                                   saved |-> save, state |-> stepped])]
                        /\ best_loss' = (IF save THEN val_loss ELSE best_loss)
                        /\ files' = (IF save THEN torch_save(stepped, save_model_path)
                                     ELSE files)
             ELSE UNCHANGED <<evals, best_loss, files>>
    /\ iter' = iter + 1
    /\ UNCHANGED <<backend, folds, fold, predictions, classifiers, pc, self_attrs,
                   result, max_iters, eval_interval, save_model_path, notFitVars>>

\* the network whose outputs fill the validation rows of the fold:
\* `classifier.eval()` ... `classifier(None, x.unsqueeze(0))`
validation_model_from_checkpoint == files[fold].state
validation_model == nn_classifier

\* the loop is over and fit_nn_classifier returns the network; train writes the
\* validation rows of the fold from it and goes on to the next fold
FitReturn ==
    /\ pc = "fit"
    /\ ~in_range(iter)
    /\ IF backend = "nn"
       THEN /\ predictions' = Append(predictions, validation_model)
            /\ classifiers' = Append(classifiers, nn_classifier)
            /\ fold' = fold + 1
            /\ pc' = "loop"
            /\ UNCHANGED result
       ELSE /\ result' = Returned(nn_classifier)
            /\ pc' = "returned"
            /\ UNCHANGED <<predictions, classifiers, fold>>
    /\ UNCHANGED <<backend, folds, self_attrs, max_iters, eval_interval,
                   save_model_path, iter, best_loss, nn_classifier, evals, files,
                   notFitVars>>

\* an exception inside fit_nn_classifier (get_batch on an empty slice, a label
\* outside the outputs of the network, ...): train ends there
FitRaise ==
    /\ pc = "fit"
    /\ pc' = "raised"
    /\ UNCHANGED <<backend, folds, fold, predictions, classifiers, self_attrs,
                   result, fitVars, files, notFitVars>>

\* after the fold loop of NNClassifier.train: the table and one
\* {'model_path', 'config'} entry per fold are stored on self
NNTrainFinish ==
    /\ backend = "nn"
    /\ pc = "loop"
    /\ fold = num_folds
    /\ self_attrs' = [assigned |-> TRUE,
                      train_predictions |-> predictions,
                      train_classes |-> "this",
                      classifiers |-> stored_classifiers(classifiers)]
    /\ pc' = "trained"
    /\ UNCHANGED <<backend, folds, fold, predictions, classifiers, result,
                   fitVars, files, notFitVars>>

\* torch.load(c['model_path']) for the entries of self.classifiers, in order
load_state_dicts(cs) ==
    IF \E i \in 1 .. Len(cs) : ~files[cs[i].model_path].exists
    THEN Raised("FileNotFoundError")
    ELSE Returned([i \in 1 .. Len(cs) |-> files[cs[i].model_path].state])

\* NNClassifier.predict: the parameters each fold's network is given
NNPredict ==
    /\ pc = "trained"
    /\ result' = load_state_dicts(self_attrs.classifiers)
    /\ pc' = "predicted"
    /\ UNCHANGED <<backend, folds, fold, predictions, classifiers, self_attrs,
                   fitVars, files, notFitVars>>

NextNN == FitCall \/ FitIteration \/ FitReturn \/ FitRaise \/ NNTrainFinish \/ NNPredict

SpecNN == InitNN /\ [][NextNN]_vars

\* ---- what the claims about the training loop speak of ----
\* the evaluations of the fit of fold f so far
Evals(f) == evals[f]
LastEval(f) == evals[f][Len(evals[f])]
\* no file has been written by this call
NothingSaved == \A p \in Paths : files[p] \in {NoFile, EarlierFile(p)}

\* C14: fit_nn_classifier does not halt early: while it runs, the network has
\* taken as many optimizer steps as iterations are done, and the network it
\* returns has taken exactly max_iters steps, whatever the validation losses
\* were; with max_iters = 0 there is no step, no evaluation and no checkpoint
\* write, and the network returned is the freshly initialized one.
C14_RunsToMaxIters ==
    /\ pc = "fit" => (nn_classifier = Params(fold, iter) /\ iter <= max_iters)
    /\ \A i \in 1 .. Len(classifiers) : classifiers[i] = Params(i - 1, max_iters)
    /\ pc = "returned" => result.value = Params(0, max_iters)
    /\ max_iters = 0 =>
          /\ \A f \in Paths : Evals(f) = <<>>
          /\ NothingSaved
          /\ nn_classifier.steps = 0

\* a fit that went on to max_iters after an evaluation that did not improve
C14_Witness ==
    /\ pc \in {"loop", "returned"}
    /\ max_iters = MaxIters
    /\ Len(Evals(0)) >= 2
    /\ Evals(0)[1].saved /\ ~Evals(0)[2].saved
    /\ Evals(0)[2].iter < max_iters - 1
    /\ nn_classifier = Params(0, max_iters)

\* max_iters = 0: the call has returned the fresh network
C14_WitnessZero ==
    /\ pc = "returned"
    /\ max_iters = 0
    /\ result.value = Params(0, 0)

\* the fit of fold f is under way (or was ended by an exception)
FitRunning(f) == f = fold /\ pc \in {"fit", "raised"}
\* the fit of fold f has returned
FitOver(f) == (backend = "nn" /\ f < fold) \/ (backend = "fit" /\ pc = "returned" /\ f = 0)
FitBegun(f) == FitRunning(f) \/ FitOver(f)
\* the iterations done so far at which an evaluation is due
DueIters(f) ==
    {i \in 0 .. (IF FitRunning(f) THEN iter ELSE max_iters) - 1 :
        i % eval_interval = 0 \/ i = max_iters - 1}
\* the loss of evaluation k improves on every loss evaluated before it (a nan
\* loss improves on nothing, and nothing has to improve on a nan)
StrictlyBest(f, k) ==
    /\ RLess(Evals(f)[k].loss, RInf)
    /\ \A j \in 1 .. k - 1 :
          Evals(f)[j].loss = RNaN \/ RLess(Evals(f)[k].loss, Evals(f)[j].loss)
\* the evaluations whose loss no other evaluation improves on
Minimal(f) ==
    {k \in 1 .. Len(Evals(f)) :
        /\ Evals(f)[k].loss # RNaN
        /\ \A j \in 1 .. Len(Evals(f)) : ~RLess(Evals(f)[j].loss, Evals(f)[k].loss)}
MinLoss(f) ==
    IF Minimal(f) = {} THEN RInf ELSE Evals(f)[CHOOSE k \in Minimal(f) : TRUE].loss
FirstMinimal(f) == CHOOSE k \in Minimal(f) : \A j \in Minimal(f) : k <= j

EvaluationsOnSchedule(f) ==
    /\ {Evals(f)[k].iter : k \in 1 .. Len(Evals(f))} = DueIters(f)
    /\ \A j, k \in 1 .. Len(Evals(f)) : j < k => Evals(f)[j].iter < Evals(f)[k].iter
    /\ \A k \in 1 .. Len(Evals(f)) :
          Evals(f)[k].state = Params(f, Evals(f)[k].iter + 1)

SavedIffStrictlyBest(f) ==
    /\ \A k \in 1 .. Len(Evals(f)) : Evals(f)[k].saved <=> StrictlyBest(f, k)
    /\ FitRunning(f) => best_loss = MinLoss(f)
    /\ IF Minimal(f) = {} THEN files[f] \in {NoFile, EarlierFile(f)}
       ELSE files[f] = File(Evals(f)[FirstMinimal(f)].state)

\* C15, as the code has it: evaluations happen exactly at the iterations i
\* with i mod eval_interval = 0 and at i = max_iters - 1; when a
\* save_model_path is given, the parameters are saved at an evaluation exactly
\* when its validation loss is strictly lower than every loss evaluated before
\* in this run, so that best_loss is the least loss evaluated so far and the
\* file holds the parameters of the first evaluation that reached it; without
\* a save_model_path nothing is saved and best_loss stays inf.
C15_SaveOnStrictImprovement ==
    \A f \in Paths :
        FitBegun(f) =>
            /\ EvaluationsOnSchedule(f)
            /\ IF save_model_path.given
               THEN SavedIffStrictlyBest(f)
               ELSE /\ \A k \in 1 .. Len(Evals(f)) : ~Evals(f)[k].saved
                    /\ best_loss = RInf
                    /\ NothingSaved

\* C15 as claimed: in every call of fit_nn_classifier the parameters are saved
\* at an evaluation exactly when its loss is strictly lower than the best seen
\* so far, and best_loss is the least loss evaluated so far.
C15_AlwaysSavedOnImprovement ==
    \A f \in Paths :
        FitBegun(f) =>
            /\ EvaluationsOnSchedule(f)
            /\ \A k \in 1 .. Len(Evals(f)) : Evals(f)[k].saved <=> StrictlyBest(f, k)
            /\ FitRunning(f) => best_loss = MinLoss(f)

\* three evaluations: an improvement, a tie with the best, a worse loss being
\* the last iteration; the file holds the parameters of the first
C15_Witness ==
    /\ pc = "fit" /\ iter = max_iters /\ save_model_path.given
    /\ eval_interval = 2 /\ max_iters = 2
    /\ Len(Evals(fold)) = 2
    /\ Evals(fold)[1].loss = R(1) /\ Evals(fold)[2].loss = R(1)
    /\ Evals(fold)[2].iter = 1
    /\ files[fold] = File(Params(fold, 1))

TrainedFolds == 0 .. num_folds - 1

\* C16: once NNClassifier.train has returned, the file of every fold f was
\* written during this run and holds the parameters saved at the
\* lowest-validation-loss evaluation of fold f's fit, and predict gives the
\* network of fold f exactly those parameters.
C16_PredictUsesBestOfThisRun ==
    /\ pc \in {"trained", "predicted"} =>
          \A f \in TrainedFolds :
              /\ files[f].exists
              /\ files[f].state.run = "this"
              /\ Minimal(f) # {}
              /\ files[f].state = Evals(f)[FirstMinimal(f)].state
    /\ pc = "predicted" =>
          /\ result.raised = None
          /\ \A f \in TrainedFolds : result.value[f + 1] = files[f].state

\* the last evaluation of fold f's fit, at the last iteration, saved the
\* parameters
LastEvaluationSaved(f) ==
    /\ Evals(f) # <<>>
    /\ LastEval(f).iter = max_iters - 1
    /\ LastEval(f).saved

\* C19: the out-of-fold predictions of fold f come from the network in memory
\* after the last iteration, Params(f, max_iters), whatever the checkpoint file
\* holds; the parameters predict later loads for fold f are those same
\* parameters exactly when the last evaluation of the fit was the one that
\* wrote the checkpoint.
C19_OutOfFoldFromInMemoryModel ==
    /\ \A i \in 1 .. Len(predictions) : predictions[i] = Params(i - 1, max_iters)
    /\ pc \in {"trained", "predicted"} =>
          /\ self_attrs.train_predictions = predictions
          /\ Len(predictions) = num_folds
    /\ (pc = "predicted" /\ result.raised = None) =>
          \A f \in TrainedFolds :
              (result.value[f + 1] = self_attrs.train_predictions[f + 1])
                  <=> LastEvaluationSaved(f)

\* two folds: the last evaluation of fold 0 saved, predict loads the
\* parameters that predicted its rows; an earlier evaluation of fold 1 was the
\* best, predict loads other parameters than those that predicted its rows
C19_Witness ==
    /\ pc = "predicted" /\ result.raised = None
    /\ num_folds = 2
    /\ LastEvaluationSaved(0)
    /\ result.value[1] = self_attrs.train_predictions[1]
    /\ ~LastEvaluationSaved(1)
    /\ result.value[2] = Params(1, 1)
    /\ self_attrs.train_predictions[2] = Params(1, max_iters)
    /\ max_iters > 1

\* the table holds a row no fold has written
HasSentinelRow(table) == \E o \in DOMAIN table : table[o] = Sentinel

\* C18: train_predictions, train_classes and classifiers change on self only
\* in the step that ends train, after every fold has been trained and the
\* diagnostics computed, and then to the finished table, the classes and the
\* models of this call; a call that raises, in a fold or in the diagnostics,
\* leaves them as they were; and a table that is set on self has no row
\* holding the sentinel -1.
C18_NoPartialTableExposed ==
    /\ [](self_attrs.assigned => ~HasSentinelRow(self_attrs.train_predictions))
    /\ [][/\ pc' = "raised" => self_attrs' = self_attrs
          /\ self_attrs' # self_attrs =>
                /\ pc = "loop" /\ pc' = "done"
                /\ fold = num_folds
                /\ Len(classifiers) = num_folds
                /\ self_attrs'.train_predictions = predictions
                /\ self_attrs'.train_classes = "this"
                /\ self_attrs'.classifiers = stored_classifiers(classifiers)]_vars

\* train has raised in its second fold, the rows of the first fold written and
\* the others not; self holds what an earlier call left
C18_Witness ==
    /\ pc = "raised"
    /\ fold = 1 /\ num_folds >= 2
    /\ HasSentinelRow(predictions)
    /\ \E o \in TrainObjects : predictions[o] # Sentinel
    /\ self_attrs = EarlierAttrs

\* train has raised in the diagnostics, the table complete
C18_WitnessDiagnostics ==
    /\ pc = "raised"
    /\ fold = num_folds
    /\ ~HasSentinelRow(predictions)
    /\ self_attrs = Unassigned

(***************************************************************************)
(* Classifier.write(overwrite)                                             *)
(*                                                                         *)
(* A classifier is identified by its name, which gives the path of its     *)
(* bundle, and by a version standing for its contents (the models and the  *)
(* table it holds when written).  A bundle found in the directory before   *)
(* the first call holds version 0.                                         *)
(***************************************************************************)
NumNames == 2
NumVersions == 2

WriteNames == 1 .. NumNames
Versions == 1 .. NumVersions

\* the classifier write is called on
Classifier(name, version) == [name |-> name, version |-> version]
\* self.path = get_classifier_path(self.name)
path_of(classifier) == classifier.name
\* pickle.dump(self, output_file): the bundle of the classifier; the file as
\* open(path, "wb") leaves it when pickle.dump fails
pickle_dump(classifier) == [exists |-> TRUE, state |-> classifier]
Truncated(classifier) == [exists |-> TRUE, state |-> Classifier(classifier.name, -1)]
NoBundle == [exists |-> FALSE, state |-> Classifier(0, 0)]
EarlierBundle(name) == [exists |-> TRUE, state |-> Classifier(name, 0)]

\* `if os.path.exists(path)` ... `else: raise AvocadoException`
write_refused_never(exists, ow) == FALSE
write_refused(exists, ow) == exists /\ ~ow

InitWrite ==
    /\ files \in {[n \in WriteNames |-> IF n \in S THEN EarlierBundle(n) ELSE NoBundle] :
                    S \in SUBSET WriteNames}
    /\ self_attrs = Classifier(0, 0)
    /\ overwrite = FALSE
    /\ result = NoResult
    /\ pc = "idle"
    /\ backend = None /\ folds = None /\ fold = None /\ predictions = None
    /\ classifiers = None /\ writers = None
    /\ object_classes = None /\ class_weights = None /\ object_weights = None
    /\ redshifts = None /\ groups = None /\ num_bins = None /\ min_bin_count = None
    /\ IdleFit

notWriteVars == <<backend, folds, fold, predictions, classifiers, writers, dataVars,
                  fitVars>>

\* self.write(overwrite=ow) on a classifier: refused when the path exists and
\* overwrite is not set; otherwise the old file is removed and the bundle
\* written
Write ==
    \E name \in WriteNames, version \in Versions, ow \in BOOLEAN :
        LET self == Classifier(name, version)
            path == path_of(self)
        IN /\ self_attrs' = self
           /\ overwrite' = ow
           /\ IF write_refused(files[path].exists, ow)
              THEN /\ result' = Raised("AvocadoException")
                   /\ files' = files
              ELSE /\ result' = Returned(<<>>)
                   /\ files' = [files EXCEPT ![path] = pickle_dump(self)]
           /\ pc' = "written"
           /\ UNCHANGED notWriteVars

\* the same call when pickle.dump raises (the classifier holds something that
\* cannot be pickled): the file is left opened for writing and incomplete
WritePickleFails ==
    \E name \in WriteNames, version \in Versions, ow \in BOOLEAN :
        LET self == Classifier(name, version)
            path == path_of(self)
        IN /\ ~write_refused(files[path].exists, ow)
           /\ self_attrs' = self
           /\ overwrite' = ow
           /\ result' = Raised("PicklingError")
           /\ files' = [files EXCEPT ![path] = Truncated(self)]
           /\ pc' = "written"
           /\ UNCHANGED notWriteVars

NextWrite == Write \/ WritePickleFails

SpecWrite == InitWrite /\ [][NextWrite]_vars

\* C17: a call of write with overwrite = False on a path that holds a file
\* raises AvocadoException and changes no file; a call that passes overwrite =
\* True, or finds no file, and returns, leaves at the path the bundle of the
\* classifier it was called on, the other paths untouched; AvocadoException is
\* raised in no other case; and in any sequence of calls a file that exists is
\* changed only by a call that passed overwrite = True.
C17_OverwriteOnlyOnRequest ==
    [][LET path == path_of(self_attrs')
       IN /\ (files[path].exists /\ ~overwrite') =>
                (result' = Raised("AvocadoException") /\ files' = files)
          /\ result'.raised = "AvocadoException" => (files[path].exists /\ ~overwrite')
          /\ result'.raised = None =>
                /\ ~files[path].exists \/ overwrite'
                /\ files'[path] = pickle_dump(self_attrs')
          /\ \A p \in WriteNames :
                files'[p] # files[p] => (p = path /\ (overwrite' \/ ~files[p].exists))
      ]_vars

\* a call without overwrite has just been refused on a path that holds the
\* bundle an earlier call of this sequence wrote, of another version
C17_Witness ==
    /\ pc = "written"
    /\ result = Raised("AvocadoException")
    /\ ~overwrite
    /\ files[path_of(self_attrs)].state.version \in Versions
    /\ files[path_of(self_attrs)].state.version # self_attrs.version

\* a call with overwrite has replaced the bundle found before the first call
C17_WitnessOverwritten ==
    /\ pc = "written"
    /\ result.raised = None
    /\ overwrite
    /\ files[path_of(self_attrs)] = pickle_dump(self_attrs)
    /\ \E p \in WriteNames : p # path_of(self_attrs) /\ files[p] = EarlierBundle(p)

\* C20: when no class is extragalactic, the rescale factor has the denominator
\* 0 (it is inf or nan) and divides no weight: every object has the finite
\* weight N / max(count(cell), min_bin_count) times the multiplier of its
\* class.
C20_NoExtragalacticClassIsFinite ==
    (RedshiftReturned /\ ExtragalacticClasses = {}) =>
        /\ ~RFinite(result.value.extgal_scale)
        /\ \A o \in RedshiftObjects :
              /\ RFinite(result.value.object_weights[o])
              /\ result.value.object_weights[o]
                    = RMul(R(RedshiftMultiplier(object_classes[o])),
                           RDiv(R(Cardinality(RedshiftObjects)),
                                R(BinCountFloor(CellCount(RedshiftCell(o))))))

\* no class is extragalactic although a cell outside the galactic bin is
\* populated (the factor is 1 / 0), a multiplier of 2 and a cell below the floor
C20_Witness ==
    /\ RedshiftReturned
    /\ ExtragalacticClasses = {}
    /\ \E o \in RedshiftObjects : RedshiftBin(o) >= 1
    /\ result.value.extgal_scale = RInf
    /\ \E o \in RedshiftObjects :
          /\ RedshiftMultiplier(object_classes[o]) = 2
          /\ CellCount(RedshiftCell(o)) < min_bin_count
          /\ result.value.object_weights[o][1] > 0

\* every object galactic: the factor is 0 / 0
C20_WitnessAllGalactic ==
    /\ RedshiftReturned
    /\ \A o \in RedshiftObjects : RedshiftBin(o) = 0
    /\ result.value.extgal_scale = RNaN
    /\ \A o \in RedshiftObjects : RFinite(result.value.object_weights[o])

====
